---- MODULE Spec2Model ----
(***************************************************************************)
(* Model of synthesis_calculator.py: the default weight table WEIGHTS,     *)
(* normalize_score, calculate_final_score and the interactive main().      *)
(*                                                                         *)
(* Python floats are modelled as exact rationals [n |-> numerator,         *)
(* d |-> denominator] kept in lowest terms with d > 0, so that equality of *)
(* two numbers is equality of their records.  A division by zero is the    *)
(* only arithmetic operation of the code that raises; the model raises it  *)
(* where the code does (ZeroDivisionError).                                *)
(***************************************************************************)
EXTENDS Integers, Sequences, FiniteSets, TLC

\* ------------------------------------------------------------ bounds

\* Largest number of models entered in one comparison.
MaxModels == 3

\* normalize_score is exercised with min_val, max_val in 0..MaxVal and
\* score in -1..MaxVal+1 (so scores below and above the range occur).
MaxVal == 3

\* ------------------------------------------------------------ numbers

Abs(x) == IF x < 0 THEN -x ELSE x

RECURSIVE GCD(_, _)
GCD(a, b) == IF b = 0 THEN a ELSE GCD(b, a % b)

\* The rational n/d (d # 0) in lowest terms with a positive denominator.
Rat(n, d) ==
    LET g == GCD(Abs(n), Abs(d))
        s == IF d < 0 THEN -1 ELSE 1
    IN  [n |-> (s * n) \div g, d |-> (s * d) \div g]

Zero == Rat(0, 1)
One == Rat(1, 1)
Hundred == Rat(100, 1)

RAdd(x, y) == Rat(x.n * y.d + y.n * x.d, x.d * y.d)
RSub(x, y) == Rat(x.n * y.d - y.n * x.d, x.d * y.d)
RMul(x, y) == Rat(x.n * y.n, x.d * y.d)
\* x / y for y # 0 (the callers test y first, as Python raises on y = 0).
RDiv(x, y) == Rat(x.n * y.d, x.d * y.n)
RLt(x, y) == x.n * y.d < y.n * x.d
RLe(x, y) == x.n * y.d <= y.n * x.d
RAbs(x) == [n |-> Abs(x.n), d |-> x.d]

\* ------------------------------------------------------------ WEIGHTS

Dims == {"detection", "asc", "tco", "deployment", "efficiency"}

\* The module-level default weight table.
DefaultWeights ==
    [detection  |-> Rat(30, 100),
     asc        |-> Rat(25, 100),
     tco        |-> Rat(20, 100),
     deployment |-> Rat(15, 100),
     efficiency |-> Rat(10, 100)]

\* A falsy weights argument (None, or an empty dict).
NoWeights == [k \in {} |-> Zero]

\* sum(weights.values())
SumWeights(w) ==
    RAdd(RAdd(RAdd(RAdd(w.detection, w.asc), w.tco), w.deployment), w.efficiency)

\* ------------------------------------------------------------ state

VARIABLES
    pc,              \* where main() stands
    WEIGHTS,         \* the module-level default weight dict
    custom_weights,  \* the answer to "Use default weights?"
    weights,         \* main()'s local weight dict
    total_weight,    \* main()'s local sum of the entered weights
    warned,          \* the "Weights sum to ..." warning was printed
    mode,            \* the answer to "Evaluate (1) ... or (2) ...?"
    num_models,      \* how many models are to be compared
    models,          \* the entered models, in input order
    results,         \* the result rows (sorted once main() is done)
    order,           \* order[k]: the input position of the model of results[k]
    rankings,        \* the printed FINAL RANKINGS rows
    final,           \* single-model mode: the composite score
    interpretation,  \* single-model mode: the printed interpretation
    error,           \* the exception that ended main(), or "none"
    entered,         \* what was typed at the five weight prompts (history)
    last,            \* the latest direct call of normalize_score
    prev,            \* the direct call of normalize_score before it
    reordered,       \* the same comparison run on the models in another order
    menu             \* the menu loop of main_calculator around the run

vars == <<pc, WEIGHTS, custom_weights, weights, total_weight, warned, mode,
          num_models, models, results, order, rankings, final, interpretation,
          error, entered, last, prev, reordered, menu>>

mainVars == <<pc, WEIGHTS, custom_weights, weights, total_weight, warned, mode,
              num_models, models, results, order, rankings, final,
              interpretation, error, entered, reordered, menu>>

\* ------------------------------------------------------------ functions

\* The exception normalize_score ends with, or "none": the only operation
\* of it that can raise is the division, reached when max_val # min_val.
NormalizeRaises(score, min_val, max_val, inverse) ==
    IF max_val = min_val THEN "none"
    ELSE IF RSub(max_val, min_val) = Zero THEN "ZeroDivisionError"
    ELSE "none"

\* Faulty variant: the two directions exchanged.
NormalizeScoreSwapped(score, min_val, max_val, inverse) ==
    IF max_val = min_val
    THEN IF inverse THEN Hundred ELSE Zero
    ELSE IF inverse
         THEN RMul(RDiv(RSub(score, min_val), RSub(max_val, min_val)), Hundred)
         ELSE RMul(RDiv(RSub(max_val, score), RSub(max_val, min_val)), Hundred)

\* Faulty variant: the fixed values of the degenerate range exchanged.
NormalizeScoreDegenerate(score, min_val, max_val, inverse) ==
    IF max_val = min_val
    THEN IF inverse THEN Zero ELSE Hundred
    ELSE IF inverse
         THEN RMul(RDiv(RSub(max_val, score), RSub(max_val, min_val)), Hundred)
         ELSE RMul(RDiv(RSub(score, min_val), RSub(max_val, min_val)), Hundred)

\* Faulty variant: the distance from min_val taken as an absolute value.
NormalizeScoreAbs(score, min_val, max_val, inverse) ==
    IF max_val = min_val
    THEN IF inverse THEN Hundred ELSE Zero
    ELSE IF inverse
         THEN RMul(RDiv(RAbs(RSub(max_val, score)), RSub(max_val, min_val)), Hundred)
         ELSE RMul(RDiv(RAbs(RSub(score, min_val)), RSub(max_val, min_val)), Hundred)

\* normalize_score(score, min_val, max_val, inverse)
NormalizeScore(score, min_val, max_val, inverse) ==
    IF max_val = min_val
    THEN IF inverse THEN Hundred ELSE Zero
    ELSE IF inverse
         THEN RMul(RDiv(RSub(max_val, score), RSub(max_val, min_val)), Hundred)
         ELSE RMul(RDiv(RSub(score, min_val), RSub(max_val, min_val)), Hundred)

\* Faulty variant: the efficiency score added without its weight.
WeightedSumRawEfficiency(w, detection_norm, asc_norm, tco_norm, deployment_norm, efficiency_norm) ==
    RAdd(RAdd(RAdd(RAdd(RMul(w.detection, detection_norm),
                        RMul(w.asc, asc_norm)),
                   RMul(w.tco, tco_norm)),
              RMul(w.deployment, deployment_norm)),
         efficiency_norm)

\* Faulty variant: the efficiency term left out of the sum.
WeightedSumNoEfficiency(w, detection_norm, asc_norm, tco_norm, deployment_norm, efficiency_norm) ==
    RAdd(RAdd(RAdd(RMul(w.detection, detection_norm),
                   RMul(w.asc, asc_norm)),
              RMul(w.tco, tco_norm)),
         RMul(w.deployment, deployment_norm))

\* The weighted sum of the five scores under the weight dict w.
WeightedSum(w, detection_norm, asc_norm, tco_norm, deployment_norm, efficiency_norm) ==
    RAdd(RAdd(RAdd(RAdd(RMul(w.detection, detection_norm),
                        RMul(w.asc, asc_norm)),
                   RMul(w.tco, tco_norm)),
              RMul(w.deployment, deployment_norm)),
         RMul(w.efficiency, efficiency_norm))

\* Faulty variant: the weights argument ignored, the default table used.
CalculateFinalScoreDefault(detection_norm, asc_norm, tco_norm, deployment_norm, efficiency_norm, wts, table) ==
    WeightedSum(table, detection_norm, asc_norm, tco_norm, deployment_norm,
                efficiency_norm)

\* calculate_final_score(...), called while the module-level table is `table`:
\* w = weights or WEIGHTS.
CalculateFinalScore(detection_norm, asc_norm, tco_norm, deployment_norm, efficiency_norm, wts, table) ==
    LET w == IF DOMAIN wts = {} THEN table ELSE wts
    IN  WeightedSum(w, detection_norm, asc_norm, tco_norm, deployment_norm,
                    efficiency_norm)

\* Faulty variant: the value of the last model taken as the maximum.
MaxOfLast(ms, key) == ms[Len(ms)][key]

\* min(m[key] for m in models) and max(...), for a non-empty list.
MinOf(ms, key) ==
    CHOOSE v \in {ms[i][key] : i \in 1..Len(ms)} :
        \A j \in 1..Len(ms) : RLe(v, ms[j][key])
MaxOf(ms, key) ==
    CHOOSE v \in {ms[i][key] : i \in 1..Len(ms)} :
        \A j \in 1..Len(ms) : RLe(ms[j][key], v)

\* Faulty variant: detection and asc cut off at 100 before they are stored.
ResultRowClamped(m, tco_min, tco_max, dep_min, dep_max, eff_min, eff_max, wts, table) ==
    LET det_norm == IF RLt(Hundred, m.detection) THEN Hundred ELSE m.detection
        asc_norm == IF RLt(Hundred, m.asc) THEN Hundred ELSE m.asc
        tco_norm == NormalizeScore(m.tco, tco_min, tco_max, TRUE)
        dep_norm == NormalizeScore(m.deployment, dep_min, dep_max, FALSE)
        eff_norm == NormalizeScore(m.efficiency, eff_min, eff_max, FALSE)
    IN  [name            |-> m.name,
         detection_norm  |-> det_norm,
         asc_norm        |-> asc_norm,
         tco_norm        |-> tco_norm,
         deployment_norm |-> dep_norm,
         efficiency_norm |-> eff_norm,
         final_score     |-> CalculateFinalScore(det_norm, asc_norm, tco_norm,
                                                 dep_norm, eff_norm, wts, table)]

\* Faulty variant: tco normalized like the other two, without inverse=True.
ResultRowTcoDirect(m, tco_min, tco_max, dep_min, dep_max, eff_min, eff_max, wts, table) ==
    LET det_norm == m.detection
        asc_norm == m.asc
        tco_norm == NormalizeScore(m.tco, tco_min, tco_max, FALSE)
        dep_norm == NormalizeScore(m.deployment, dep_min, dep_max, FALSE)
        eff_norm == NormalizeScore(m.efficiency, eff_min, eff_max, FALSE)
    IN  [name            |-> m.name,
         detection_norm  |-> det_norm,
         asc_norm        |-> asc_norm,
         tco_norm        |-> tco_norm,
         deployment_norm |-> dep_norm,
         efficiency_norm |-> eff_norm,
         final_score     |-> CalculateFinalScore(det_norm, asc_norm, tco_norm,
                                                 dep_norm, eff_norm, wts, table)]

\* The result row of model m (the body of the loop over models), given the
\* minima and maxima computed before the loop.
ResultRow(m, tco_min, tco_max, dep_min, dep_max, eff_min, eff_max, wts, table) ==
    LET det_norm == m.detection
        asc_norm == m.asc
        tco_norm == NormalizeScore(m.tco, tco_min, tco_max, TRUE)
        dep_norm == NormalizeScore(m.deployment, dep_min, dep_max, FALSE)
        eff_norm == NormalizeScore(m.efficiency, eff_min, eff_max, FALSE)
    IN  [name            |-> m.name,
         detection_norm  |-> det_norm,
         asc_norm        |-> asc_norm,
         tco_norm        |-> tco_norm,
         deployment_norm |-> dep_norm,
         efficiency_norm |-> eff_norm,
         final_score     |-> CalculateFinalScore(det_norm, asc_norm, tco_norm,
                                                 dep_norm, eff_norm, wts, table)]

\* The unsorted result list: the minima and maxima, then one row per model.
RECURSIVE RowsUpTo(_, _, _, _, _, _, _, _, _, _)
RowsUpTo(ms, n, tco_min, tco_max, dep_min, dep_max, eff_min, eff_max, wts, table) ==
    IF n = 0 THEN <<>>
    ELSE Append(RowsUpTo(ms, n - 1, tco_min, tco_max, dep_min, dep_max,
                         eff_min, eff_max, wts, table),
                ResultRow(ms[n], tco_min, tco_max, dep_min, dep_max,
                          eff_min, eff_max, wts, table))

\* Faulty variant: the first model's values taken as the minima.
ResultRowsFirstAsMin(ms, wts, table) ==
    RowsUpTo(ms, Len(ms), ms[1].tco, MaxOf(ms, "tco"),
             ms[1].deployment, MaxOf(ms, "deployment"),
             ms[1].efficiency, MaxOf(ms, "efficiency"), wts, table)

ResultRows(ms, wts, table) ==
    RowsUpTo(ms, Len(ms), MinOf(ms, "tco"), MaxOf(ms, "tco"),
             MinOf(ms, "deployment"), MaxOf(ms, "deployment"),
             MinOf(ms, "efficiency"), MaxOf(ms, "efficiency"), wts, table)

\* Faulty variant: an element goes in front of the elements whose key equals
\* its own, so equal keys come out in reverse input order.
InsertDescTiesFirst(ord, i, rows) ==
    LET n == Cardinality({k \in 1..Len(ord) :
                            RLt(rows[i].final_score, rows[ord[k]].final_score)})
    IN  SubSeq(ord, 1, n) \o <<i>> \o SubSeq(ord, n + 1, Len(ord))

\* results.sort(key=final_score, reverse=True) as the permutation it applies:
\* element i goes behind every element already placed whose key is at least
\* its own, so equal keys keep their input order.
InsertDesc(ord, i, rows) ==
    LET n == Cardinality({k \in 1..Len(ord) :
                            RLe(rows[i].final_score, rows[ord[k]].final_score)})
    IN  SubSeq(ord, 1, n) \o <<i>> \o SubSeq(ord, n + 1, Len(ord))

RECURSIVE SortOrderUpTo(_, _)
SortOrderUpTo(rows, m) ==
    IF m = 0 THEN <<>> ELSE InsertDesc(SortOrderUpTo(rows, m - 1), m, rows)

\* Faulty variant: reverse=True left out, the rows come out ascending.
SortOrderAscending(rows) ==
    LET o == SortOrderUpTo(rows, Len(rows))
    IN  [k \in 1..Len(o) |-> o[Len(o) + 1 - k]]

SortOrder(rows) == SortOrderUpTo(rows, Len(rows))

\* The interpretation printed for a single model's composite score.
Interpret(score) ==
    IF RLe(Rat(78, 1), score) THEN "Excellent"
    ELSE IF RLe(Rat(72, 1), score) THEN "Very Good"
    ELSE IF RLe(Rat(65, 1), score) THEN "Good"
    ELSE "Moderate"

\* ------------------------------------------------------------ inputs

\* What can be typed at a numeric prompt: a number, nothing, or text that
\* float()/int() rejects.
Num(r) == [kind |-> "num", val |-> r]
Empty == [kind |-> "empty", val |-> Zero]
Bad == [kind |-> "bad", val |-> Zero]

\* float(input(...) or default): nothing typed gives the default.
WeightOf(tok, default) == IF tok.kind = "empty" THEN default ELSE tok.val

\* The text typed at the yes/no prompt and what .strip().lower() makes of it.
RawAnswers == {"yes", "", "no", " N "}
StripLower(s) == IF s = " N " THEN "n" ELSE s

WeightEntry(a, b, c, d, e) ==
    [detection |-> a, asc |-> b, tco |-> c, deployment |-> d, efficiency |-> e]

WeightEntries ==
    { WeightEntry(Empty, Empty, Empty, Empty, Empty),
      WeightEntry(Num(Rat(4, 10)), Num(Rat(3, 10)), Num(Rat(3, 10)),
                  Num(Rat(3, 10)), Num(Rat(3, 10))),
      WeightEntry(Num(Zero), Num(Zero), Num(Zero), Num(Zero), Num(Zero)),
      WeightEntry(Num(Rat(-2, 10)), Num(Rat(3, 10)), Num(Rat(3, 10)),
                  Num(Rat(3, 10)), Num(Rat(3, 10))),
      WeightEntry(Num(One), Num(Zero), Num(Zero), Num(Zero), Num(Zero)),
      WeightEntry(Num(Rat(30, 100)), Num(Rat(25, 100)), Num(Rat(20, 100)),
                  Num(Rat(15, 100)), Num(Rat(105, 1000))),
      WeightEntry(Num(Rat(30, 100)), Num(Rat(25, 100)), Num(Rat(20, 100)),
                  Num(Rat(15, 100)), Num(Rat(11, 100))),
      WeightEntry(Num(Rat(1, 2)), Empty, Empty, Empty, Empty),
      WeightEntry(Num(Rat(-1, 1)), Num(Zero), Num(Zero), Num(Zero), Num(Zero)),
      WeightEntry(Num(Rat(1, 2)), Num(Rat(-1, 2)), Num(Zero), Num(Zero), Num(Zero)),
      WeightEntry(Bad, Empty, Empty, Empty, Empty) }

Modes == {"1", "2", ""}

Names == {"A", "B"}

Profile(det, asc, tco, dep, eff) ==
    [detection |-> det, asc |-> asc, tco |-> tco, deployment |-> dep,
     efficiency |-> eff]

Profiles ==
    { Profile(Rat(90, 1), Rat(95, 1), Rat(500000, 1), Rat(1, 2), Rat(2, 1000)),
      Profile(Rat(80, 1), Rat(85, 1), Rat(300000, 1), Rat(8, 10), Rat(4, 1000)),
      Profile(Rat(90, 1), Rat(95, 1), Rat(400000, 1), Rat(1, 2), Rat(2, 1000)),
      Profile(Rat(80, 1), Rat(85, 1), Rat(400000, 1), Rat(65, 100), Rat(3, 1000)),
      Profile(Rat(150, 1), Rat(-5, 1), Rat(300000, 1), Rat(8, 10), Rat(4, 1000)) }

Candidate(nm, p) ==
    [name |-> nm, detection |-> p.detection, asc |-> p.asc, tco |-> p.tco,
     deployment |-> p.deployment, efficiency |-> p.efficiency]

Candidates == {Candidate(nm, p) : nm \in Names, p \in Profiles}

\* Models whose detection and asc values lie in [0, 100], the two ends
\* included: one that is best in every dimension, one that is worst in every
\* dimension, and two in between.
ScoreProfiles ==
    { Profile(Rat(100, 1), Rat(100, 1), Rat(300000, 1), Rat(8, 10), Rat(4, 1000)),
      Profile(Zero, Zero, Rat(500000, 1), Rat(1, 2), Rat(2, 1000)),
      Profile(Rat(100, 1), Zero, Rat(400000, 1), Rat(65, 100), Rat(3, 1000)),
      Profile(Rat(80, 1), Rat(85, 1), Rat(300000, 1), Rat(1, 2), Rat(4, 1000)) }

ScoreCandidates == {Candidate(nm, p) : nm \in Names, p \in ScoreProfiles}

\* The pre-normalized scores typed in single-model mode.
SingleScores == {Rat(60, 1), Rat(75, 1), Rat(100, 1)}

NoCall == [called |-> FALSE, score |-> Zero, min_val |-> Zero, max_val |-> Zero,
           inverse |-> FALSE, exc |-> "none", ret |-> Zero]

\* No second run of the comparison yet.
NoReorder == [done |-> FALSE, perm |-> <<>>, models |-> <<>>, results |-> <<>>,
              order |-> <<>>]

\* What can be typed at the menu prompt, and what .strip() makes of it.
RawChoices == {"0", "1", "2", "3", "4", "5", "7", "", " 0 ", "exit"}
StripChoice(raw) == IF raw = " 0 " THEN "0" ELSE raw

\* The calculator that the if/elif chain of the menu runs for a choice.
CalculatorOf(choice) ==
    CASE choice = "1" -> "pfo"
      [] choice = "2" -> "asc"
      [] choice = "3" -> "tco"
      [] choice = "4" -> "synthesis"
      [] choice = "5" -> "complete"
      [] OTHER -> "none"

\* The menu loop: where it stands (at the choice prompt, in a calculator, at
\* "Press Enter to continue...", after the break, or left by an exception),
\* the choice of this pass, the calculator run in this pass and whether the
\* invalid-choice warning was printed in this pass.
MenuAt(at, choice, ran, invalid) ==
    [at |-> at, choice |-> choice, ran |-> ran, invalid |-> invalid]
AtPrompt == MenuAt("menu", "", "none", FALSE)
SynthesisChosen == MenuAt("calc", "4", "synthesis", FALSE)

\* int(input("How many models to compare? ")) for the numbers typed.
ModelCounts == -1..MaxModels

\* The order in which the five weights are asked for.
DimOrder == <<"detection", "asc", "tco", "deployment", "efficiency">>
DimIndex(d) == CHOOSE i \in 1..5 : DimOrder[i] = d

\* ------------------------------------------------------------ main()

Init ==
    /\ pc = "ask_weights"
    /\ WEIGHTS = DefaultWeights
    /\ custom_weights = ""
    /\ weights = NoWeights
    /\ total_weight = Zero
    /\ warned = FALSE
    /\ mode = ""
    /\ num_models = 0
    /\ models = <<>>
    /\ results = <<>>
    /\ order = <<>>
    /\ rankings = <<>>
    /\ final = Zero
    /\ interpretation = ""
    /\ error = "none"
    /\ entered = WeightEntry(Empty, Empty, Empty, Empty, Empty)
    /\ last = NoCall
    /\ prev = NoCall
    /\ reordered = NoReorder
    /\ menu = SynthesisChosen

\* An uncaught exception ends main().
Raise(exc) ==
    /\ pc' = "crashed"
    /\ error' = exc

\* custom_weights = input(...).strip().lower(); weights = WEIGHTS.copy()
AskDefaultWeights ==
    /\ pc = "ask_weights"
    /\ \E raw \in RawAnswers :
          /\ custom_weights' = StripLower(raw)
          /\ pc' = IF StripLower(raw) \in {"no", "n"}
                   THEN "enter_weights" ELSE "ask_mode"
    /\ weights' = WEIGHTS
    /\ UNCHANGED <<WEIGHTS, total_weight, warned, mode, num_models, models,
                   results, order, rankings, final, interpretation, error,
                   entered, last, prev, reordered, menu>>

\* abs(total_weight - 1.0) > 0.01, in binary floating point. The doubles
\* nearest to 1.01 and to 0.99 both lie 0.010000000000000009 from 1.0, which
\* is more than the double 0.01: a sum that comes out as one of them counts
\* as drift, like every sum farther from 1.0; a sum closer to 1.0 does not.
Drifts(total) == RLe(Rat(1, 100), RAbs(RSub(total, One)))

\* Faulty variant: the quotients are computed and dropped, the dict is left
\* as typed.
RenormalizeNoop(typed, total) == typed

\* for key in weights: weights[key] /= total_weight   (total_weight # 0)
Renormalize(typed, total) == [d \in Dims |-> RDiv(typed[d], total)]

\* Faulty variant: weights = WEIGHTS without .copy(), so every write to the
\* local dict is a write to the module-level table.
EnterCustomWeightsShared ==
    /\ pc = "enter_weights"
    /\ \E e \in WeightEntries :
          LET bad == {i \in 1..5 : e[DimOrder[i]].kind = "bad"}
              firstBad == IF bad = {} THEN 6
                          ELSE CHOOSE i \in bad : \A j \in bad : i <= j
              typed == [d \in Dims |->
                          IF DimIndex(d) < firstBad
                          THEN WeightOf(e[d], weights[d]) ELSE weights[d]]
              total == SumWeights(typed)
              drift == Drifts(total)
          IN  /\ entered' = e
              /\ IF bad # {}
                 THEN /\ weights' = typed
                      /\ Raise("ValueError")
                      /\ UNCHANGED <<total_weight, warned>>
                 ELSE /\ total_weight' = total
                      /\ warned' = drift
                      /\ IF drift /\ total = Zero
                         THEN /\ weights' = typed
                              /\ Raise("ZeroDivisionError")
                         ELSE /\ weights' = IF drift
                                            THEN Renormalize(typed, total)
                                            ELSE typed
                              /\ pc' = "ask_mode"
                              /\ UNCHANGED error
    /\ WEIGHTS' = weights'
    /\ UNCHANGED <<custom_weights, mode, num_models, models, results,
                   order, rankings, final, interpretation, last, prev, reordered, menu>>

\* The five weight prompts, the sum check and the renormalisation.
EnterCustomWeights ==
    /\ pc = "enter_weights"
    /\ \E e \in WeightEntries :
          LET bad == {i \in 1..5 : e[DimOrder[i]].kind = "bad"}
              firstBad == IF bad = {} THEN 6
                          ELSE CHOOSE i \in bad : \A j \in bad : i <= j
              typed == [d \in Dims |->
                          IF DimIndex(d) < firstBad
                          THEN WeightOf(e[d], weights[d]) ELSE weights[d]]
              total == SumWeights(typed)
              drift == Drifts(total)
          IN  /\ entered' = e
              /\ IF bad # {}
                 THEN /\ weights' = typed
                      /\ Raise("ValueError")
                      /\ UNCHANGED <<total_weight, warned>>
                 ELSE /\ total_weight' = total
                      /\ warned' = drift
                      /\ IF drift /\ total = Zero
                         THEN /\ weights' = typed
                              /\ Raise("ZeroDivisionError")
                         ELSE /\ weights' = IF drift
                                            THEN Renormalize(typed, total)
                                            ELSE typed
                              /\ pc' = "ask_mode"
                              /\ UNCHANGED error
    /\ UNCHANGED <<WEIGHTS, custom_weights, mode, num_models, models, results,
                   order, rankings, final, interpretation, last, prev, reordered, menu>>

\* mode = input(...).strip()
ChooseMode ==
    /\ pc = "ask_mode"
    /\ \E m \in Modes :
          /\ mode' = m
          /\ pc' = IF m = "2" THEN "ask_num" ELSE "single"
    /\ UNCHANGED <<WEIGHTS, custom_weights, weights, total_weight, warned,
                   num_models, models, results, order, rankings, final,
                   interpretation, error, entered, last, prev, reordered, menu>>

\* num_models = int(input(...)); models = []
EnterNumModels ==
    /\ pc = "ask_num"
    /\ \E n \in ModelCounts : num_models' = n
    /\ models' = <<>>
    /\ pc' = "enter_model"
    /\ UNCHANGED <<WEIGHTS, custom_weights, weights, total_weight, warned, mode,
                   results, order, rankings, final, interpretation, error,
                   entered, last, prev, reordered, menu>>

\* One pass of the loop that reads a model and appends it, the values typed
\* being those of one of cands.
EnterModelFrom(cands) ==
    /\ pc = "enter_model"
    /\ Len(models) < num_models
    /\ \E c \in cands : models' = Append(models, c)
    /\ UNCHANGED <<pc, WEIGHTS, custom_weights, weights, total_weight, warned,
                   mode, num_models, results, order, rankings, final,
                   interpretation, error, entered, last, prev, reordered, menu>>

EnterModel == EnterModelFrom(Candidates)

\* Text that int() or float() rejects, typed at a prompt that has no default.
BadNumber ==
    /\ \/ pc = "ask_num"
       \/ pc = "enter_model" /\ Len(models) < num_models
       \/ pc = "single"
    /\ Raise("ValueError")
    /\ UNCHANGED <<WEIGHTS, custom_weights, weights, total_weight, warned, mode,
                   num_models, models, results, order, rankings, final,
                   interpretation, entered, last, prev, reordered, menu>>

\* Faulty variant: an empty list of models yields an empty ranking.
RankEmptyOk ==
    /\ pc = "enter_model"
    /\ Len(models) >= num_models
    /\ IF models = <<>>
       THEN /\ pc' = "done"
            /\ UNCHANGED <<results, order, rankings, error>>
       ELSE \E rows \in {ResultRows(models, weights, WEIGHTS)} :
            \E ord \in {SortOrder(rows)} :
                /\ results' = [k \in 1..Len(rows) |-> rows[ord[k]]]
                /\ order' = ord
                /\ rankings' = [k \in 1..Len(rows) |->
                                  [rank |-> k, name |-> rows[ord[k]].name,
                                   final_score |-> rows[ord[k]].final_score,
                                   star |-> (k = 1)]]
                /\ pc' = "done"
                /\ UNCHANGED error
    /\ UNCHANGED <<WEIGHTS, custom_weights, weights, total_weight, warned, mode,
                   num_models, models, final, interpretation, entered, last,
                   prev, reordered, menu>>

\* Faulty variant: the sort is applied to the list of entered models as well.
RankSortsModels ==
    /\ pc = "enter_model"
    /\ Len(models) >= num_models
    /\ IF models = <<>>
       THEN /\ Raise("ValueError")
            /\ UNCHANGED <<results, order, rankings, models>>
       ELSE \E rows \in {ResultRows(models, weights, WEIGHTS)} :
            \E ord \in {SortOrder(rows)} :
                /\ results' = [k \in 1..Len(rows) |-> rows[ord[k]]]
                /\ order' = ord
                /\ rankings' = [k \in 1..Len(rows) |->
                                  [rank |-> k, name |-> rows[ord[k]].name,
                                   final_score |-> rows[ord[k]].final_score,
                                   star |-> (k = 1)]]
                /\ models' = [k \in 1..Len(rows) |-> models[ord[k]]]
                /\ pc' = "done"
                /\ UNCHANGED error
    /\ UNCHANGED <<WEIGHTS, custom_weights, weights, total_weight, warned, mode,
                   num_models, final, interpretation, entered, last,
                   prev, reordered, menu>>

\* After the last model: min/max, normalisation, scoring, the sort and the
\* FINAL RANKINGS table.
Rank ==
    /\ pc = "enter_model"
    /\ Len(models) >= num_models
    /\ IF models = <<>>
       THEN /\ Raise("ValueError")
            /\ UNCHANGED <<results, order, rankings>>
       ELSE \E rows \in {ResultRows(models, weights, WEIGHTS)} :
            \E ord \in {SortOrder(rows)} :
                /\ results' = [k \in 1..Len(rows) |-> rows[ord[k]]]
                /\ order' = ord
                /\ rankings' = [k \in 1..Len(rows) |->
                                  [rank |-> k, name |-> rows[ord[k]].name,
                                   final_score |-> rows[ord[k]].final_score,
                                   star |-> (k = 1)]]
                /\ pc' = "done"
                /\ UNCHANGED error
    /\ UNCHANGED <<WEIGHTS, custom_weights, weights, total_weight, warned, mode,
                   num_models, models, final, interpretation, entered, last,
                   prev, reordered, menu>>

\* Single-model mode: five pre-normalized scores, the composite score and
\* its interpretation.
EvaluateSingle ==
    /\ pc = "single"
    /\ \E detection \in SingleScores, asc \in SingleScores, tco \in SingleScores,
          deployment \in SingleScores, efficiency \in SingleScores :
          LET f == CalculateFinalScore(detection, asc, tco, deployment,
                                       efficiency, weights, WEIGHTS)
          IN  /\ final' = f
              /\ interpretation' = Interpret(f)
    /\ pc' = "done"
    /\ UNCHANGED <<WEIGHTS, custom_weights, weights, total_weight, warned, mode,
                   num_models, models, results, order, rankings, error,
                   entered, last, prev, reordered, menu>>

\* The menu of main_calculator runs the synthesis engine again: main() starts
\* afresh, only the module-level WEIGHTS is carried over.
RunAgain ==
    /\ pc = "done"
    /\ pc' = "ask_weights"
    /\ custom_weights' = ""
    /\ weights' = NoWeights
    /\ total_weight' = Zero
    /\ warned' = FALSE
    /\ mode' = ""
    /\ num_models' = 0
    /\ models' = <<>>
    /\ results' = <<>>
    /\ order' = <<>>
    /\ rankings' = <<>>
    /\ final' = Zero
    /\ interpretation' = ""
    /\ entered' = WeightEntry(Empty, Empty, Empty, Empty, Empty)
    /\ reordered' = NoReorder
    /\ UNCHANGED <<WEIGHTS, error, last, prev, menu>>

Next ==
    \/ AskDefaultWeights
    \/ EnterCustomWeights
    \/ ChooseMode
    \/ EnterNumModels
    \/ EnterModel
    \/ BadNumber
    \/ Rank
    \/ EvaluateSingle
    \/ RunAgain

Spec == Init /\ [][Next]_vars

\* ------------------------------------------------------------ normalize_score alone

\* normalize_score called directly, twice, on arguments of every shape:
\* scores inside, below and above the range, and ranges with
\* min_val < max_val, min_val = max_val and min_val > max_val.  The two calls
\* are kept side by side so that they can be compared.
ScoreArgs == {Rat(v, 1) : v \in -1..(MaxVal + 1)}
RangeArgs == {Rat(v, 1) : v \in 0..MaxVal}

InitNormalize ==
    /\ pc = "normalize"
    /\ WEIGHTS = DefaultWeights
    /\ custom_weights = ""
    /\ weights = NoWeights
    /\ total_weight = Zero
    /\ warned = FALSE
    /\ mode = ""
    /\ num_models = 0
    /\ models = <<>>
    /\ results = <<>>
    /\ order = <<>>
    /\ rankings = <<>>
    /\ final = Zero
    /\ interpretation = ""
    /\ error = "none"
    /\ entered = WeightEntry(Empty, Empty, Empty, Empty, Empty)
    /\ last = NoCall
    /\ prev = NoCall
    /\ reordered = NoReorder
    /\ menu = SynthesisChosen

CallNormalize ==
    /\ pc = "normalize"
    /\ ~prev.called
    /\ \E score \in ScoreArgs, min_val \in RangeArgs, max_val \in RangeArgs,
          inverse \in BOOLEAN :
          last' = [called |-> TRUE, score |-> score, min_val |-> min_val,
                   max_val |-> max_val, inverse |-> inverse,
                   exc |-> NormalizeRaises(score, min_val, max_val, inverse),
                   ret |-> NormalizeScore(score, min_val, max_val, inverse)]
    /\ prev' = last
    /\ UNCHANGED mainVars

NextNormalize == CallNormalize

SpecNormalize == InitNormalize /\ [][NextNormalize]_vars

\* The program and the direct calls together.
InitAll == Init \/ InitNormalize
NextAll == Next \/ NextNormalize
SpecAll == InitAll /\ [][NextAll]_vars

\* ------------------------------------------------------------ a comparison and its reordering

\* The reorderings of n models that exchange two of them: perm[i] is the
\* old position of the model entered i-th.  Every reordering is a chain of
\* such exchanges, and every sequence of models is one that can be entered.
Swaps(n) ==
    {[i \in 1..n |-> IF i = a THEN b ELSE IF i = b THEN a ELSE i] :
        a \in 1..n, b \in 1..n} \ {[i \in 1..n |-> i]}

\* main() at the "How many models" prompt of a comparison, under the default
\* weights, under custom weights 1, 0, 0, 0, 0 taken as typed, and under
\* custom weights 0.4, 0.3, 0.3, 0.3, 0.3 renormalized.
ReorderStarts ==
    { [answer |-> "yes",
       typed |-> WeightEntry(Empty, Empty, Empty, Empty, Empty),
       weights |-> DefaultWeights, total |-> Zero, warned |-> FALSE],
      [answer |-> "no",
       typed |-> WeightEntry(Num(One), Num(Zero), Num(Zero), Num(Zero), Num(Zero)),
       weights |-> [detection |-> One, asc |-> Zero, tco |-> Zero,
                    deployment |-> Zero, efficiency |-> Zero],
       total |-> One, warned |-> FALSE],
      [answer |-> "no",
       typed |-> WeightEntry(Num(Rat(4, 10)), Num(Rat(3, 10)), Num(Rat(3, 10)),
                             Num(Rat(3, 10)), Num(Rat(3, 10))),
       weights |-> [detection |-> Rat(4, 16), asc |-> Rat(3, 16),
                    tco |-> Rat(3, 16), deployment |-> Rat(3, 16),
                    efficiency |-> Rat(3, 16)],
       total |-> Rat(16, 10), warned |-> TRUE] }

InitReorder ==
    /\ pc = "ask_num"
    /\ WEIGHTS = DefaultWeights
    /\ \E st \in ReorderStarts :
          /\ custom_weights = st.answer
          /\ entered = st.typed
          /\ weights = st.weights
          /\ total_weight = st.total
          /\ warned = st.warned
    /\ mode = "2"
    /\ num_models = 0
    /\ models = <<>>
    /\ results = <<>>
    /\ order = <<>>
    /\ rankings = <<>>
    /\ final = Zero
    /\ interpretation = ""
    /\ error = "none"
    /\ last = NoCall
    /\ prev = NoCall
    /\ reordered = NoReorder
    /\ menu = SynthesisChosen

\* The comparison run once more under the same weights, the same models
\* entered with two of them exchanged: min/max, normalisation, scoring and
\* the sort.
RankReordered ==
    /\ pc = "done"
    /\ mode = "2"
    /\ ~reordered.done
    /\ \E perm \in Swaps(Len(models)) :
       \E ms \in {[i \in 1..Len(models) |-> models[perm[i]]]} :
       \E rows \in {ResultRows(ms, weights, WEIGHTS)} :
       \E ord \in {SortOrder(rows)} :
          reordered' = [done |-> TRUE, perm |-> perm, models |-> ms,
                        results |-> [k \in 1..Len(rows) |-> rows[ord[k]]],
                        order |-> ord]
    /\ UNCHANGED <<pc, WEIGHTS, custom_weights, weights, total_weight, warned,
                   mode, num_models, models, results, order, rankings, final,
                   interpretation, error, entered, last, prev, menu>>

NextReorder ==
    \/ EnterNumModels
    \/ EnterModel
    \/ Rank
    \/ RankReordered

SpecReorder == InitReorder /\ [][NextReorder]_vars

\* main() run as a comparison of models whose detection and asc values lie
\* in [0, 100].
EnterModelScores == EnterModelFrom(ScoreCandidates)

NextScores ==
    \/ AskDefaultWeights
    \/ EnterCustomWeights
    \/ ChooseMode
    \/ EnterNumModels
    \/ EnterModelScores
    \/ Rank

SpecScores == Init /\ [][NextScores]_vars

\* ------------------------------------------------------------ the menu loop of main_calculator

\* The locals of synthesis_calculator.main() as they are when it is entered,
\* and as nothing once it has returned; main() then stands at p.
FreshLocals(p) ==
    /\ pc' = p
    /\ custom_weights' = ""
    /\ weights' = NoWeights
    /\ total_weight' = Zero
    /\ warned' = FALSE
    /\ mode' = ""
    /\ num_models' = 0
    /\ models' = <<>>
    /\ results' = <<>>
    /\ order' = <<>>
    /\ rankings' = <<>>
    /\ final' = Zero
    /\ interpretation' = ""
    /\ entered' = WeightEntry(Empty, Empty, Empty, Empty, Empty)

synthesisLocals ==
    <<pc, custom_weights, weights, total_weight, warned, mode, num_models,
      models, results, order, rankings, final, interpretation, entered>>

\* main_calculator.main() at its first menu prompt, no calculator running.
InitMenu ==
    /\ pc = "idle"
    /\ WEIGHTS = DefaultWeights
    /\ custom_weights = ""
    /\ weights = NoWeights
    /\ total_weight = Zero
    /\ warned = FALSE
    /\ mode = ""
    /\ num_models = 0
    /\ models = <<>>
    /\ results = <<>>
    /\ order = <<>>
    /\ rankings = <<>>
    /\ final = Zero
    /\ interpretation = ""
    /\ error = "none"
    /\ entered = WeightEntry(Empty, Empty, Empty, Empty, Empty)
    /\ last = NoCall
    /\ prev = NoCall
    /\ reordered = NoReorder
    /\ menu = AtPrompt

\* print_menu(); choice = input(...).strip(); the if/elif chain up to the
\* call of the calculator, the break or the invalid-choice warning.
EnterChoice ==
    /\ menu.at = "menu"
    /\ \E raw \in RawChoices :
          LET choice == StripChoice(raw)
          IN  IF choice = "4"
              THEN /\ menu' = MenuAt("calc", choice, "synthesis", FALSE)
                   /\ FreshLocals("ask_weights")
              ELSE /\ menu' =
                        IF CalculatorOf(choice) # "none"
                        THEN MenuAt("calc", choice, CalculatorOf(choice), FALSE)
                        ELSE IF choice = "0"
                        THEN MenuAt("exit", choice, "none", FALSE)
                        ELSE MenuAt("enter", choice, "none", TRUE)
                   /\ UNCHANGED synthesisLocals
    /\ UNCHANGED <<WEIGHTS, error, last, prev, reordered>>

\* synthesis_main() returns to run_synthesis() and on to the menu loop.
SynthesisReturns ==
    /\ menu.at = "calc"
    /\ menu.ran = "synthesis"
    /\ pc = "done"
    /\ menu' = [menu EXCEPT !.at = "enter"]
    /\ FreshLocals("idle")
    /\ UNCHANGED <<WEIGHTS, error, last, prev, reordered>>

\* An exception raised in synthesis_main() is no ImportError: it passes
\* through run_synthesis() and out of the menu loop.
SynthesisRaises ==
    /\ menu.at = "calc"
    /\ menu.ran = "synthesis"
    /\ pc = "crashed"
    /\ menu' = [menu EXCEPT !.at = "raised"]
    /\ UNCHANGED <<synthesisLocals, WEIGHTS, error, last, prev, reordered>>

\* One of the other calculators runs to its end, or one of its
\* float(input(...)) / int(input(...)) raises ValueError, which nothing
\* catches.
OtherCalculatorEnds ==
    /\ menu.at = "calc"
    /\ menu.ran \in {"pfo", "asc", "tco", "complete"}
    /\ \/ /\ menu' = [menu EXCEPT !.at = "enter"]
          /\ UNCHANGED error
       \/ /\ menu' = [menu EXCEPT !.at = "raised"]
          /\ error' = "ValueError"
    /\ UNCHANGED <<synthesisLocals, WEIGHTS, last, prev, reordered>>

\* input("Press Enter to continue..."), and the loop starts over.
PressEnter ==
    /\ menu.at = "enter"
    /\ menu' = AtPrompt
    /\ UNCHANGED <<synthesisLocals, WEIGHTS, error, last, prev, reordered>>

NextMenu ==
    \/ EnterChoice
    \/ SynthesisReturns
    \/ SynthesisRaises
    \/ OtherCalculatorEnds
    \/ PressEnter
    \/ AskDefaultWeights
    \/ EnterCustomWeights
    \/ ChooseMode
    \/ EnterNumModels
    \/ EnterModel
    \/ BadNumber
    \/ Rank
    \/ EvaluateSingle

SpecMenu == InitMenu /\ [][NextMenu]_vars

\* ------------------------------------------------------------ properties

InRange(x) == RLe(Zero, x) /\ RLe(x, Hundred)

\* A comparison has been ranked and not yet discarded.
Ranked == pc = "done" /\ mode = "2"

\* C1: the ranked list is in descending order of final score, and two rows
\* with equal final scores stand in the order in which their models were
\* entered; every row is the row of the model whose input position `order`
\* records.
C1_SortedStable ==
    Ranked =>
        /\ Len(results) = Len(models)
        /\ {order[k] : k \in 1..Len(order)} = 1..Len(models)
        /\ \A k \in 1..Len(results) : results[k].name = models[order[k]].name
        /\ \A i, j \in 1..Len(results) :
              i < j =>
                 /\ RLe(results[j].final_score, results[i].final_score)
                 /\ results[i].final_score = results[j].final_score
                       => order[i] < order[j]

\* C1 witness: a ranked list of three holding a tie between two models of
\* different names, and a model that was moved in front of an earlier one.
C1_Witness ==
    /\ Ranked
    /\ Len(results) = 3
    /\ \E i, j \in 1..3 :
          /\ i < j
          /\ results[i].final_score = results[j].final_score
          /\ results[i].name # results[j].name
          /\ results[i].tco_norm # results[j].tco_norm
    /\ \E i, j \in 1..3 : i < j /\ order[i] > order[j]

\* C2 (as claimed): all five normalized scores of every result row lie in
\* [0,100].
C2_AllNormsInRange ==
    Ranked =>
        \A k \in 1..Len(results) :
            /\ InRange(results[k].detection_norm)
            /\ InRange(results[k].asc_norm)
            /\ InRange(results[k].tco_norm)
            /\ InRange(results[k].deployment_norm)
            /\ InRange(results[k].efficiency_norm)

\* C3 (as claimed): normalize_score returns a value in [0,100] whatever its
\* arguments.
C3_Clamped ==
    last.called => InRange(last.ret)

\* C4: for min_val # max_val normalize_score returns
\* (score - min_val) / (max_val - min_val) * 100, or, inverse,
\* (max_val - score) / (max_val - min_val) * 100 (stated without division);
\* and the comparison normalizes tco inversely, deployment and efficiency
\* directly, over the minimum and maximum of the entered models.
C4_Formula ==
    /\ (last.called /\ last.min_val # last.max_val) =>
          RMul(last.ret, RSub(last.max_val, last.min_val))
             = RMul(Hundred, IF last.inverse
                             THEN RSub(last.max_val, last.score)
                             ELSE RSub(last.score, last.min_val))
    /\ Ranked =>
          \A k \in 1..Len(results) :
              LET m == models[order[k]]
                  Lo(key) == MinOf(models, key)
                  Hi(key) == MaxOf(models, key)
              IN  /\ Lo("tco") # Hi("tco") =>
                        RMul(results[k].tco_norm, RSub(Hi("tco"), Lo("tco")))
                           = RMul(Hundred, RSub(Hi("tco"), m.tco))
                  /\ Lo("deployment") # Hi("deployment") =>
                        RMul(results[k].deployment_norm,
                             RSub(Hi("deployment"), Lo("deployment")))
                           = RMul(Hundred, RSub(m.deployment, Lo("deployment")))
                  /\ Lo("efficiency") # Hi("efficiency") =>
                        RMul(results[k].efficiency_norm,
                             RSub(Hi("efficiency"), Lo("efficiency")))
                           = RMul(Hundred, RSub(m.efficiency, Lo("efficiency")))

\* C4 witness: a ranked row whose tco, deployment and efficiency all fall
\* strictly inside their ranges.
C4_Witness ==
    /\ Ranked
    /\ \E k \in 1..Len(results) :
          /\ RLt(Zero, results[k].tco_norm) /\ RLt(results[k].tco_norm, Hundred)
          /\ RLt(Zero, results[k].deployment_norm)
          /\ RLt(results[k].deployment_norm, Hundred)
          /\ RLt(Zero, results[k].efficiency_norm)
          /\ RLt(results[k].efficiency_norm, Hundred)

\* C5: on a degenerate range (max_val = min_val) normalize_score returns
\* exactly 100 in inverse mode and exactly 0 otherwise, whatever the score,
\* and does not raise.
C5_Degenerate ==
    (last.called /\ last.max_val = last.min_val) =>
        /\ last.exc = "none"
        /\ last.ret = IF last.inverse THEN Hundred ELSE Zero

\* C5 witness: two calls on a degenerate range, one in each mode, with a
\* score that is not the common value.
C5_Witness ==
    /\ prev.called /\ last.called
    /\ prev.max_val = prev.min_val /\ last.max_val = last.min_val
    /\ prev.inverse /\ ~last.inverse
    /\ prev.score # prev.min_val /\ last.score # last.min_val

\* C6: for fixed min_val < max_val, normalize_score is non-decreasing in
\* score in direct mode and non-increasing in score in inverse mode.
C6_Monotone ==
    (/\ prev.called /\ last.called
     /\ prev.min_val = last.min_val /\ prev.max_val = last.max_val
     /\ prev.inverse = last.inverse
     /\ RLt(last.min_val, last.max_val)
     /\ RLe(prev.score, last.score)) =>
        IF last.inverse THEN RLe(last.ret, prev.ret) ELSE RLe(prev.ret, last.ret)

\* C6 witness: two direct-mode calls on the same range, the first with a
\* score below min_val, the second with a score above max_val.
C6_Witness ==
    /\ prev.called /\ last.called
    /\ prev.min_val = last.min_val /\ prev.max_val = last.max_val
    /\ ~prev.inverse /\ ~last.inverse
    /\ RLt(last.min_val, last.max_val)
    /\ RLt(prev.score, prev.min_val) /\ RLt(last.max_val, last.score)
    /\ RLt(prev.ret, last.ret)

\* C7: the detection_norm and asc_norm of a result row are the detection
\* and asc that were entered for its model.
C7_PassThrough ==
    Ranked =>
        \A k \in 1..Len(results) :
            /\ results[k].detection_norm = models[order[k]].detection
            /\ results[k].asc_norm = models[order[k]].asc

\* C7 witness: a ranked comparison of models with different detection
\* values, one of them above 100.
C7_Witness ==
    /\ Ranked
    /\ Len(results) >= 2
    /\ \E i, j \in 1..Len(results) :
          /\ results[i].detection_norm # results[j].detection_norm
          /\ RLt(Hundred, results[i].detection_norm)

\* C8: the final score of every row is the sum over the five dimensions of
\* weight times normalized score, under the weights of this run; these are
\* the default weights exactly when no custom weights were asked for.
C8_WeightedSum ==
    Ranked =>
        /\ custom_weights \notin {"no", "n"} => weights = DefaultWeights
        /\ \A k \in 1..Len(results) :
              results[k].final_score =
                 RAdd(RMul(weights.detection, results[k].detection_norm),
                      RAdd(RMul(weights.asc, results[k].asc_norm),
                           RAdd(RMul(weights.tco, results[k].tco_norm),
                                RAdd(RMul(weights.deployment,
                                          results[k].deployment_norm),
                                     RMul(weights.efficiency,
                                          results[k].efficiency_norm)))))

\* C8 witness: a ranked comparison under custom weights that differ from the
\* defaults, with a row whose five normalized scores are all non-zero.
C8_Witness ==
    /\ Ranked
    /\ weights # WEIGHTS
    /\ \A d \in Dims : weights[d] # Zero
    /\ \E k \in 1..Len(results) :
          /\ results[k].tco_norm # Zero
          /\ results[k].deployment_norm # Zero
          /\ results[k].efficiency_norm # Zero

\* The numbers typed at the weight prompts.
TypedNegative ==
    \E d \in Dims : entered[d].kind = "num" /\ RLt(entered[d].val, Zero)
TypedAllValid == \A d \in Dims : entered[d].kind # "bad"

\* C9 (as claimed): a negative weight ends the run with InvalidWeightError
\* before anything is normalized, scored or ranked.
C9_NegativeRejected ==
    TypedNegative =>
        /\ error = "InvalidWeightError"
        /\ results = <<>>
        /\ rankings = <<>>

\* C10 (as claimed): weights whose sum differs from 1.0 by more than 0.01
\* are each divided by the sum, with a warning, the run continues and the
\* weights then sum to 1.0.
C10_Renormalized ==
    (/\ custom_weights \in {"no", "n"}
     /\ pc # "enter_weights"
     /\ TypedAllValid
     /\ RLt(Rat(1, 100), RAbs(RSub(total_weight, One)))) =>
        /\ warned
        /\ error = "none"
        /\ SumWeights(weights) = One
        /\ \A d \in Dims :
              RMul(weights[d], total_weight) = WeightOf(entered[d], WEIGHTS[d])

\* Weight construction has ended without an exception.
WeightsAccepted ==
    /\ pc \notin {"ask_weights", "enter_weights"}
    /\ error # "ZeroDivisionError"
    /\ TypedAllValid

\* C11 (as claimed): the weights used for scoring sum to 1.0 within 1e-9,
\* whether default, custom within tolerance, or renormalized.
C11_SumExact ==
    WeightsAccepted =>
        RLe(RAbs(RSub(SumWeights(weights), One)), Rat(1, 1000000000))

\* C11 (amended): the weights used for scoring sum to 1.0 within 0.01; the
\* default weights and renormalized weights sum to exactly 1.0.
C11_SumWithinTolerance ==
    WeightsAccepted =>
        /\ RLe(RAbs(RSub(SumWeights(weights), One)), Rat(1, 100))
        /\ (custom_weights \notin {"no", "n"} \/ warned)
              => SumWeights(weights) = One

\* C11 witness: a run completed under custom weights that were left as typed
\* and sum to 1.005.
C11_Witness ==
    /\ WeightsAccepted
    /\ pc = "done"
    /\ custom_weights \in {"no", "n"}
    /\ ~warned
    /\ SumWeights(weights) = Rat(1005, 1000)

\* C12 (as claimed): ranking zero candidates fails with
\* EmptyCandidateSetError and shows no ranking.
C12_EmptySetError ==
    [][(pc = "enter_model" /\ num_models <= 0) =>
          /\ pc' = "crashed"
          /\ error' = "EmptyCandidateSetError"
          /\ results' = <<>>
          /\ rankings' = <<>>]_vars

\* C12 (amended): ranking zero candidates fails with an uncaught ValueError
\* (min() of an empty sequence) and shows no ranking.
C12_EmptyFails ==
    [][(pc = "enter_model" /\ num_models <= 0) =>
          /\ pc' = "crashed"
          /\ error' = "ValueError"
          /\ results' = <<>>
          /\ rankings' = <<>>]_vars

\* C12 witness: a comparison of -1 models (no model is asked for) has ended
\* with the exception.
C12_Witness ==
    /\ mode = "2"
    /\ num_models = -1
    /\ models = <<>>
    /\ pc = "crashed"
    /\ error = "ValueError"
    /\ rankings = <<>>

\* C13 (as claimed): two models of the same name end the run with
\* DuplicateNameError, and no result list holds two rows of the same name.
C13_NoDuplicateNames ==
    /\ \A i, j \in 1..Len(results) :
          i # j => results[i].name # results[j].name
    /\ (\E i, j \in 1..Len(models) : i # j /\ models[i].name = models[j].name)
          => /\ pc # "done"
             /\ results = <<>>
             /\ rankings = <<>>
             /\ (pc = "crashed" /\ Len(models) = num_models)
                   => error = "DuplicateNameError"

\* C14: a comparison of N >= 1 models yields exactly N rows, one for each
\* entered model, printed with the ranks 1..N in order, each once, and no
\* row has a higher final score than the row of rank 1.
C14_RanksOneToN ==
    Ranked =>
        /\ Len(models) >= 1
        /\ Len(models) = num_models
        /\ Len(results) = Len(models)
        /\ Len(rankings) = Len(models)
        /\ Len(order) = Len(models)
        /\ {order[k] : k \in 1..Len(order)} = 1..Len(models)
        /\ \A k \in 1..Len(results) :
              /\ results[k].name = models[order[k]].name
              /\ results[k].detection_norm = models[order[k]].detection
              /\ rankings[k].rank = k
              /\ rankings[k].name = results[k].name
              /\ rankings[k].final_score = results[k].final_score
              /\ rankings[k].star = (k = 1)
              /\ RLe(results[k].final_score, results[1].final_score)

\* C14 witness: three models ranked, the last one entered first in the
\* ranking with a final score above both others.
C14_Witness ==
    /\ Ranked
    /\ Len(rankings) = 3
    /\ order[1] = 3
    /\ RLt(results[2].final_score, results[1].final_score)
    /\ RLt(results[3].final_score, results[2].final_score)

\* C15: a comparison of exactly one model is ranked without an exception;
\* its tco_norm is 100, its deployment_norm and efficiency_norm are 0 and
\* its final score is w[detection]*detection + w[asc]*asc + w[tco]*100,
\* whatever tco, deployment and efficiency were entered.
C15_SingleCandidate ==
    (mode = "2" /\ num_models = 1 /\ Len(models) = 1) =>
        /\ pc \in {"enter_model", "done"}
        /\ error = "none"
        /\ pc = "done" =>
              /\ Len(results) = 1
              /\ results[1].tco_norm = Hundred
              /\ results[1].deployment_norm = Zero
              /\ results[1].efficiency_norm = Zero
              /\ results[1].final_score =
                    RAdd(RAdd(RMul(weights.detection, models[1].detection),
                              RMul(weights.asc, models[1].asc)),
                         RMul(weights.tco, Hundred))

\* C15 witness: one model with non-zero tco, deployment and efficiency has
\* been ranked under weights that are all non-zero.
C15_Witness ==
    /\ Ranked
    /\ num_models = 1
    /\ Len(results) = 1
    /\ models[1].deployment # Zero
    /\ models[1].efficiency # Zero
    /\ \A d \in Dims : weights[d] # Zero
    /\ rankings[1].rank = 1

\* C16: entering the same models in another order leaves every model's row
\* (its normalized scores and final score) as it was, gives every model
\* whose final score no other model shares the same rank, and orders models
\* of equal final score by the new input order.
C16_Reordering ==
    reordered.done =>
        /\ Len(reordered.results) = Len(results)
        /\ \A k, k2 \in 1..Len(results) :
              order[k] = reordered.perm[reordered.order[k2]]
                 => reordered.results[k2] = results[k]
        /\ \A k \in 1..Len(results) :
              (\A j \in 1..Len(results) :
                  j # k => results[j].final_score # results[k].final_score)
                 => /\ reordered.results[k].name = results[k].name
                    /\ reordered.perm[reordered.order[k]] = order[k]
        /\ \A i, j \in 1..Len(results) :
              (/\ i < j
               /\ reordered.results[i].final_score
                     = reordered.results[j].final_score)
                 => reordered.order[i] < reordered.order[j]

\* C16 witness: three models, two of them of different names and equal
\* final score, entered with the first and the last exchanged: the tied
\* pair changes places in the ranking and the third model keeps its rank;
\* one tco lies strictly inside the range.
C16_Witness ==
    /\ reordered.done
    /\ Len(results) = 3
    /\ reordered.perm = <<3, 2, 1>>
    /\ results[1].final_score = results[2].final_score
    /\ results[1].name # results[2].name
    /\ RLt(results[3].final_score, results[2].final_score)
    /\ reordered.results[1] = results[2]
    /\ reordered.results[2] = results[1]
    /\ reordered.results[3] = results[3]
    /\ \E k \in 1..3 : RLt(Zero, results[k].tco_norm)
                       /\ RLt(results[k].tco_norm, Hundred)


\* C18: the step that normalizes, scores and sorts leaves the list of entered
\* models (its order and every raw value), the weight dict of the run and the
\* module-level table exactly as they were before the step.
C18_InputsUntouched ==
    [][(pc = "enter_model" /\ pc' = "done")
          => /\ models' = models
             /\ weights' = weights
             /\ WEIGHTS' = WEIGHTS]_vars

\* Three models ranked in another order than they were entered, under
\* renormalized custom weights: the entered list still starts with the model
\* that ended up below the first rank.
C18_Witness ==
    /\ Ranked /\ Len(models) = 3 /\ warned
    /\ order[1] # 1
    /\ results[1].name # models[1].name
    /\ RLt(results[3].final_score, results[1].final_score)

\* C19: the module-level WEIGHTS table keeps its five default values in every
\* state of every run, and a run that did not ask for custom weights works
\* with exactly those values.
C19_DefaultsNeverMutated ==
    /\ WEIGHTS = DefaultWeights
    /\ (pc \notin {"ask_weights"} /\ custom_weights \notin {"no", "n"})
          => weights = DefaultWeights

\* A run that typed custom weights which were renormalized has finished, its
\* own weights differ from the defaults, and the table is still the default.
C19_Witness ==
    /\ pc = "done" /\ custom_weights \in {"no", "n"} /\ warned
    /\ weights # DefaultWeights
    /\ SumWeights(weights) = One
    /\ WEIGHTS = DefaultWeights

ExampleA ==
    Candidate("A", Profile(Rat(90, 1), Rat(95, 1), Rat(500000, 1), Rat(1, 2), Rat(2, 1000)))

ExampleB ==
    Candidate("B", Profile(Rat(80, 1), Rat(85, 1), Rat(300000, 1), Rat(8, 10), Rat(4, 1000)))

\* The row of the model called nm in the ranked list.
RowOf(nm) == results[CHOOSE k \in 1..Len(results) : results[k].name = nm]

\* C20: for the two models A and B of the worked example under the default
\* weights, entered in either order, B's tco, deployment and efficiency
\* normalize to 100 and A's to 0, A's final score is 50.75
\* (0.30*90 + 0.25*95) and B's is 90.25
\* (0.30*80 + 0.25*85 + 0.20*100 + 0.15*100 + 0.10*100), and B is ranked
\* first.
C20_WorkedExample ==
    (/\ Ranked
     /\ weights = DefaultWeights
     /\ models \in {<<ExampleA, ExampleB>>, <<ExampleB, ExampleA>>})
        => /\ Len(results) = 2
           /\ RowOf("B").tco_norm = Hundred
           /\ RowOf("B").deployment_norm = Hundred
           /\ RowOf("B").efficiency_norm = Hundred
           /\ RowOf("A").tco_norm = Zero
           /\ RowOf("A").deployment_norm = Zero
           /\ RowOf("A").efficiency_norm = Zero
           /\ RowOf("A").detection_norm = Rat(90, 1)
           /\ RowOf("A").asc_norm = Rat(95, 1)
           /\ RowOf("B").detection_norm = Rat(80, 1)
           /\ RowOf("B").asc_norm = Rat(85, 1)
           /\ RowOf("A").final_score = Rat(5075, 100)
           /\ RowOf("B").final_score = Rat(9025, 100)
           /\ results[1].name = "B" /\ results[2].name = "A"
           /\ rankings[1].name = "B" /\ rankings[1].rank = 1
           /\ rankings[2].name = "A" /\ rankings[2].rank = 2

\* The worked example has been ranked with A entered first and the default
\* weights taken at the prompt.
C20_Witness ==
    /\ Ranked
    /\ custom_weights = "yes"
    /\ weights = DefaultWeights
    /\ models = <<ExampleA, ExampleB>>
    /\ results[1].name = "B"
    /\ RLt(results[2].final_score, results[1].final_score)


\* C21 (as claimed): five non-negative custom weights, the all-zero set
\* included, never end the run with an unhandled error during weight
\* construction: drift is recovered by renormalization.
C21_DriftNeverAborts ==
    (/\ custom_weights \in {"no", "n"}
     /\ pc # "enter_weights"
     /\ TypedAllValid
     /\ ~TypedNegative)
        => /\ error # "ZeroDivisionError"
           /\ (warned => SumWeights(weights) = One)


\* C22 (as claimed): custom weights whose sum is within 0.01 of 1.0
\* (|sum - 1.0| <= 0.01) are not renormalized and raise no warning: the
\* weights used are exactly the weights typed.
C22_WithinToleranceKept ==
    (/\ custom_weights \in {"no", "n"}
     /\ pc # "enter_weights"
     /\ TypedAllValid
     /\ RLe(RAbs(RSub(total_weight, One)), Rat(1, 100)))
        => /\ ~warned
           /\ error = "none"
           /\ \A d \in Dims : weights[d] = WeightOf(entered[d], WEIGHTS[d])


\* The weights of the run are non-negative and weight construction accepted
\* them.
NonNegativeAccepted ==
    /\ WeightsAccepted
    /\ \A d \in Dims : RLe(Zero, weights[d])

\* C23 (as claimed): with detection and asc in [0, 100] and non-negative
\* accepted weights, every final score of a ranking lies in [0, 100].
C23_FinalInRange ==
    (Ranked /\ NonNegativeAccepted)
        => \A k \in 1..Len(results) : InRange(results[k].final_score)

\* C23 (amended): with detection and asc in [0, 100] and non-negative accepted
\* weights, every final score lies between 0 and 100 times the sum of the
\* weights, which is at most 101; under the default weights and under
\* renormalized weights the sum is 1 and the final score lies in [0, 100].
C23_FinalWithinWeightSum ==
    (Ranked /\ NonNegativeAccepted)
        => \A k \in 1..Len(results) :
              /\ RLe(Zero, results[k].final_score)
              /\ RLe(results[k].final_score, RMul(Hundred, SumWeights(weights)))
              /\ RLe(results[k].final_score, Rat(101, 1))
              /\ (custom_weights \notin {"no", "n"} \/ warned)
                    => RLe(results[k].final_score, Hundred)

\* Custom weights 0.3, 0.25, 0.2, 0.15, 0.105 kept as typed, and a model that
\* is best in every dimension with detection and asc of 100: its final score
\* is 100.5.
C23_Witness ==
    /\ Ranked /\ NonNegativeAccepted
    /\ custom_weights \in {"no", "n"} /\ ~warned
    /\ SumWeights(weights) = Rat(1005, 1000)
    /\ Len(results) >= 2
    /\ results[1].final_score = Rat(1005, 10)
    /\ results[1].tco_norm = Hundred
    /\ results[Len(results)].final_score = Zero


\* Model i holds the lowest (highest) raw value of dimension key among the
\* models entered, and the raw values of that dimension are not all equal.
Varies(key) == \E i, j \in 1..Len(models) : models[i][key] # models[j][key]
Lowest(i, key) == \A j \in 1..Len(models) : RLe(models[i][key], models[j][key])
Highest(i, key) == \A j \in 1..Len(models) : RLe(models[j][key], models[i][key])

\* C24: in a ranked comparison, for each of tco, deployment and efficiency
\* whose raw values are not all equal, every model with the lowest tco has
\* tco_norm 100 and every model with the highest tco has 0, and every model
\* with the highest deployment (efficiency) has 100 and every model with the
\* lowest has 0.
C24_ExtremesAttained ==
    Ranked =>
        \A k \in 1..Len(results) :
            LET i == order[k]
                r == results[k]
            IN  /\ (Varies("tco") /\ Lowest(i, "tco")) => r.tco_norm = Hundred
                /\ (Varies("tco") /\ Highest(i, "tco")) => r.tco_norm = Zero
                /\ (Varies("deployment") /\ Highest(i, "deployment"))
                      => r.deployment_norm = Hundred
                /\ (Varies("deployment") /\ Lowest(i, "deployment"))
                      => r.deployment_norm = Zero
                /\ (Varies("efficiency") /\ Highest(i, "efficiency"))
                      => r.efficiency_norm = Hundred
                /\ (Varies("efficiency") /\ Lowest(i, "efficiency"))
                      => r.efficiency_norm = Zero

\* Three models ranked, all three dimensions varying, two of them sharing the
\* lowest tco: both of the cheapest have tco_norm 100 and the dearest has 0,
\* and deployment and efficiency reach 100 and 0 as well.
C24_Witness ==
    /\ Ranked /\ Len(models) = 3
    /\ Varies("tco") /\ Varies("deployment") /\ Varies("efficiency")
    /\ \E a, b, c \in 1..3 :
          /\ a # b /\ b # c /\ a # c
          /\ Lowest(order[a], "tco") /\ Lowest(order[b], "tco")
          /\ Highest(order[c], "tco") /\ ~Lowest(order[c], "tco")
          /\ results[a].tco_norm = Hundred /\ results[b].tco_norm = Hundred
          /\ results[c].tco_norm = Zero
          /\ results[a].deployment_norm = Hundred
          /\ results[c].deployment_norm = Zero
          /\ results[a].efficiency_norm = Hundred
          /\ results[c].efficiency_norm = Zero


\* The menu loop has ended: main_calculator.main() returned after the break,
\* or an exception left it.
LoopEnded == menu.at \in {"exit", "raised"}

\* C25 (as claimed): the menu loop ends only when the choice is 0; every
\* other choice runs exactly the calculator that matches it, or none and the
\* invalid-choice warning for an unrecognized choice, and is followed by the
\* Enter prompt and the menu; after 0 no calculator runs.
C25_EndsOnlyOnZero ==
    /\ LoopEnded => (menu.at = "exit" /\ menu.choice = "0")
    /\ menu.at = "exit" => (menu.ran = "none" /\ pc = "idle" /\ ~menu.invalid)
    /\ menu.at = "calc" =>
          (menu.ran # "none" /\ menu.ran = CalculatorOf(menu.choice))
    /\ menu.at = "enter" =>
          /\ menu.choice # "0"
          /\ menu.ran = CalculatorOf(menu.choice)
          /\ menu.invalid <=> (CalculatorOf(menu.choice) = "none")
    /\ (pc # "idle") => (menu.at \in {"calc", "raised"} /\ menu.ran = "synthesis")

====
